---- MODULE Spec2Model ----
(***************************************************************************)
(* The connection refresh of steampipe: refreshConnectionState and the     *)
(* Postgres state it reconciles (foreign schemas, the connection_state     *)
(* ledger, the connection state snapshot file).                            *)
(*                                                                         *)
(* One run of refreshConnections is modelled as a sequential program: pc   *)
(* is the position in refreshConnections / executeConnectionQueries /      *)
(* executeUpdateQueries, and every database call has its two outcomes      *)
(* (a result or an error).  The pool has one connection (poolsize := 1),   *)
(* so at most one transaction is open at a time.                           *)
(***************************************************************************)
EXTENDS Integers, Sequences, FiniteSets, TLC

\* connections are named 1..NumConnections, plugins 1..NumPlugins
NumConnections == 2
NumPlugins == 2

\* mods named in a workspace lock file or installed under the mods folder
NumMods == 2

Names == 1..NumConnections
Plugins == 1..NumPlugins

VARIABLES
    pc,                \* position in refreshConnections
    searchPath,        \* refreshConnectionState.searchPath
    connectionUpdates, \* refreshConnectionState.connectionUpdates
    res,               \* refreshConnectionState.res (RefreshConnectionResult)
    schema,            \* Postgres: schema[n] = a foreign schema named n is live
    ledger,            \* Postgres: the connection_state table, one row per name
    snapshotFile,      \* the connection state file exists on disk
    tx,                \* the open transaction of the pool's single connection
    cur,               \* the work unit (executeDeleteQuery / executeUpdateQuery call) in progress, or the last one ended
    delDone,           \* executeDeleteQueries: names whose loop iteration has ended
    plan,              \* executeUpdateQueries: validationFailures, initialUpdates, remainingUpdates
    updDone,           \* executeUpdateQueries: names whose executeUpdateQuery call has returned
    errors,            \* executeUpdateQueries: len(errors) > 0
    notification,      \* the schema notification sent on steampipe_schema
    dropsDone,         \* executeUpdateQueries: validation failures already handled
    saved,             \* number of times SaveConnectionStateFile wrote the file
    fanout,            \* how setAllConnectionStateToError ended
    unitFailures,      \* kinds of non-DDL failures work units have met: "begin", "ledger"
    ctx,               \* the context of the refresh: where it was cancelled, if it was
    comments,          \* executeUpdateQueries: what the comment pass did
    loops,             \* the two update loops taken on their own: calls of executeUpdateQuery per name
    clone,             \* a call of cloneConnectionSchemas: its goroutines, channels and locks
    client,            \* a SteampipeDbClient, one of its sessions and the call in progress on it
    lock               \* a WorkspaceLock being loaded by LoadWorkspaceLock

vars == <<pc, searchPath, connectionUpdates, res, schema, ledger, snapshotFile, tx, cur,
          delDone, plan, updDone, errors, notification, dropsDone, saved, fanout, unitFailures,
          ctx, comments, loops, clone, client, lock>>

----------------------------------------------------------------------------
\* Values

\* no SteampipeDbClient call and no LoadWorkspaceLock call is part of the run
NoClient == [pc |-> "none"]
NoLock == [pc |-> "none"]

\* res.Error == nil
NoError == "nil"

\* a name without a row in connection_state
NoRow == [state |-> "none", error |-> ""]

Row(s, e) == [state |-> s, error |-> e]

NoSchemas == [n \in Names |-> FALSE]

EmptyLedger == [n \in Names |-> NoRow]

\* no transaction is open
NoTx == [open |-> FALSE, schema |-> NoSchemas, ledger |-> EmptyLedger]

\* no work unit has started yet
NoUnit == [kind |-> "none", name |-> 0, sql |-> "none", phase |-> "none", ddl |-> "none",
           led |-> "none", err |-> FALSE, ret |-> "nil", end |-> "none"]

NoUpdates == [Update |-> {}, Delete |-> {}, Plugin |-> [n \in Names |-> 1],
              Invalid |-> {}, Final |-> {}, MissingPlugins |-> {}]

NoPlan == [validationFailures |-> {}, shouldDrop |-> {}, validatedUpdates |-> {},
           initialUpdates |-> {}, remainingUpdates |-> {}]

NoNotification == [status |-> "none", updated |-> {}, deleted |-> {}, count |-> 0]

\* the search paths tried: the connections in name order, and in reverse name order
Ascending == [i \in 1..NumConnections |-> i]

Descending == [i \in 1..NumConnections |-> NumConnections + 1 - i]

SearchPaths == {Ascending, Descending}

SetMax(S) == CHOOSE x \in S : \A y \in S : y <= x

\* plugin assignments up to renaming of the plugins
PluginAssignments ==
    {f \in [Names -> Plugins] :
        \A n \in Names : f[n] <= 1 + SetMax({0} \cup {f[m] : m \in 1..(n - 1)})}

\* the comment pass has not been reached
NoComments == [pass |-> "none", attempted |-> {}]

\* the update loops have not been entered
NoLoops == [pc |-> "none", done |-> {}, called |-> {}, again |-> {}]

\* cloneConnectionSchemas has not been called
NoClone == [pc |-> "none"]

\* a context that has not been cancelled
Background == [at |-> "none", pending |-> {}, clean |-> TRUE]

\* ctx has been cancelled
Cancelled == ctx.at # "none"

\* the outcomes of a database call that is given ctx: success or an error, and
\* only an error once ctx is cancelled
DbOutcomes == IF Cancelled THEN {FALSE} ELSE BOOLEAN

\* a work unit is neither begun nor executing
UnitIdle == cur.phase \in {"none", "ended"}

----------------------------------------------------------------------------
\* Init: the state after newRefreshConnectionState.  The ledger is the one a
\* successful earlier refresh left: every row is ready and has its schema, and
\* the snapshot file is on disk.

Init ==
    /\ pc = "start"
    /\ searchPath \in SearchPaths
    /\ connectionUpdates = NoUpdates
    /\ res = [Error |-> NoError, FailedConnections |-> {}, UpdatedConnections |-> FALSE,
              Warnings |-> <<>>]
    /\ schema \in [Names -> BOOLEAN]
    /\ ledger = [n \in Names |-> IF schema[n] THEN Row("ready", "") ELSE NoRow]
    /\ snapshotFile = TRUE
    /\ tx = NoTx
    /\ cur = NoUnit
    /\ delDone = {}
    /\ plan = NoPlan
    /\ updDone = {}
    /\ errors = FALSE
    /\ notification = NoNotification
    /\ dropsDone = {}
    /\ saved = 0
    /\ fanout = "none"
    /\ unitFailures = {}
    /\ ctx = Background
    /\ comments = NoComments
    /\ loops = NoLoops
    /\ clone = NoClone
    /\ client = NoClient
    /\ lock = NoLock

----------------------------------------------------------------------------
\* The ledger store (connectionStateTableUpdater) and the diff builder, which
\* refresh_connections calls.

\* the message of a failed DDL statement, and the wrapped orchestration error
DDLError == "ddl failed"

RefreshError == "failed to update Steampipe connections"

\* ConnectionUpdates.HasUpdates
HasUpdates(u) == u.Update # {} \/ u.Delete # {}

\* connectionStateTableUpdater.start: updates are set to updating, deletions to deleting
tableUpdater_start(l, u) ==
    [n \in Names |->
        IF n \in u.Delete THEN Row("deleting", l[n].error)
        ELSE IF n \in u.Update THEN Row("updating", l[n].error)
        ELSE l[n]]

\* connectionStateTableUpdater.onConnectionReady, inside the caller's transaction
onConnectionReady(l, n) == [l EXCEPT ![n] = Row("ready", "")]

\* connectionStateTableUpdater.onConnectionError, inside the caller's transaction
onConnectionError(l, n, msg) == [l EXCEPT ![n] = Row("error", msg)]

\* connectionStateTableUpdater.onConnectionDeleted, inside the caller's transaction
onConnectionDeleted(l, n) == [l EXCEPT ![n] = NoRow]

\* the names with a row in connection_state (steampipeconfig.LoadConnectionState)
LoadConnectionState(l) == {n \in Names : l[n].state # "none"}

----------------------------------------------------------------------------
\* refreshConnections, up to executeConnectionQueries

\* state.connectionUpdates, state.res = NewConnectionUpdates(...): the diff of the
\* declared connections against the ledger, or a failure to build it.  MissingPlugins
\* holds the declared connections that have no row and whose plugin is not installed.
buildConnectionUpdates ==
    /\ pc = "start"
    /\ \E ok \in DbOutcomes :
         IF ok
         THEN \E upd \in SUBSET Names, del \in SUBSET LoadConnectionState(ledger),
                 plug \in PluginAssignments, inv \in SUBSET Plugins,
                 missing \in SUBSET (Names \ LoadConnectionState(ledger)) :
                 /\ Cardinality(inv) <= 1
                 /\ inv \subseteq {plug[n] : n \in upd}
                 /\ missing \cap upd = {}
                 /\ connectionUpdates' =
                        [Update |-> upd, Delete |-> del, Plugin |-> plug, Invalid |-> inv,
                         Final |-> (LoadConnectionState(ledger) \ del) \cup upd,
                         MissingPlugins |-> missing]
                 /\ UNCHANGED res
         ELSE /\ res' = [res EXCEPT !.Error = "build"]
              /\ UNCHANGED connectionUpdates
    /\ pc' = "built"
    /\ UNCHANGED <<searchPath, schema, ledger, snapshotFile, tx, cur, delDone, plan, updDone,
                   errors, notification, dropsDone, saved, fanout, unitFailures, ctx,
                   comments, loops, clone, client, lock>>

\* if state.res.Error != nil { return }: only the first deferred function is registered
refreshConnections_buildFailed ==
    /\ pc = "built"
    /\ res.Error # NoError
    /\ pc' = "deferSetAll"
    /\ UNCHANGED <<searchPath, connectionUpdates, res, schema, ledger, snapshotFile, tx, cur,
                   delDone, plan, updDone, errors, notification, dropsDone, saved, fanout,
                   unitFailures, ctx,
                   comments, loops, clone, client, lock>>

\* a DeleteConnectionStateFile that leaves the file on disk
DeleteConnectionStateFile_Keep ==
    /\ pc = "built"
    /\ res.Error = NoError
    /\ pc' = "tableStart"
    /\ UNCHANGED <<searchPath, connectionUpdates, res, schema, ledger, snapshotFile, tx, cur,
                   delDone, plan, updDone, errors, notification, dropsDone, saved, fanout,
                   unitFailures, ctx,
                   comments, loops, clone, client, lock>>

\* steampipeconfig.DeleteConnectionStateFile(), after a successful build
DeleteConnectionStateFile ==
    /\ pc = "built"
    /\ res.Error = NoError
    /\ snapshotFile' = FALSE
    /\ pc' = "tableStart"
    /\ UNCHANGED <<searchPath, connectionUpdates, res, schema, ledger, tx, cur, delDone, plan,
                   updDone, errors, notification, dropsDone, saved, fanout, unitFailures, ctx,
                   comments, loops, clone, client, lock>>

\* RefreshConnectionResult.AddWarning
AddWarning(r, w) == [r EXCEPT !.Warnings = Append(@, w)]

\* a warning that is added whether or not a plugin is missing
addMissingPluginWarnings_Always(r, u) == AddWarning(r, "missing plugins")

\* addMissingPluginWarnings: one warning that lists every missing plugin
addMissingPluginWarnings(r, u) ==
    IF u.MissingPlugins # {} THEN AddWarning(r, "missing plugins") ELSE r

\* a refresh that goes on to the queries after a failed tableUpdater.start
AfterStart_Continue(ok, u) == IF HasUpdates(u) THEN "delete" ELSE "deferSave"

\* if err := state.tableUpdater.start(ctx); err != nil { ...; return }, then
\* if !state.connectionUpdates.HasUpdates() { return }
AfterStart(ok, u) == IF ok /\ HasUpdates(u) THEN "delete" ELSE "deferSave"

\* state.addMissingPluginWarnings(), state.tableUpdater.start(ctx), then the
\* HasUpdates check
refreshConnections_start ==
    /\ pc = "tableStart"
    /\ \E ok \in DbOutcomes :
         LET warned == addMissingPluginWarnings(res, connectionUpdates)
         IN /\ IF ok
               THEN /\ ledger' = tableUpdater_start(ledger, connectionUpdates)
                    /\ res' = warned
               ELSE /\ res' = [warned EXCEPT !.Error = "start"]
                    /\ UNCHANGED ledger
            /\ pc' = AfterStart(ok, connectionUpdates)
    /\ UNCHANGED <<searchPath, connectionUpdates, schema, snapshotFile, tx, cur, delDone, plan,
                   updDone, errors, notification, dropsDone, saved, fanout, unitFailures, ctx,
                   comments, loops, clone, client, lock>>

----------------------------------------------------------------------------
\* Work units.  A unit is pool.Begin, then the DDL and the ledger transition
\* inside the transaction, then the deferred Commit or Rollback.

\* db_common.GetDeleteConnectionQuery and db_common.GetUpdateConnectionQuery
GetDeleteConnectionQuery == "drop schema"

GetUpdateConnectionQuery == "import foreign schema"

\* the statement cloneConnectionSchemas builds
CloneForeignSchema == "clone_foreign_schema"

\* the statement a unit is called with: the delete loop and both update loops build
\* it with GetDeleteConnectionQuery and GetUpdateConnectionQuery
UnitQuery(kind) == IF kind = "delete" THEN GetDeleteConnectionQuery
                   ELSE GetUpdateConnectionQuery

Unit(kind, c) == [kind |-> kind, name |-> c, sql |-> UnitQuery(kind), phase |-> "begun",
                  ddl |-> "none", led |-> "none", err |-> FALSE, ret |-> "nil",
                  end |-> "none"]

\* pool.Begin failed: the call returns the wrapped error at once
UnitNotBegun(kind, c) == [Unit(kind, c) EXCEPT !.phase = "ended", !.ret = "err",
                                               !.end = "nobegin"]

Outcome(ok) == IF ok THEN "ok" ELSE "fail"

\* the function's err variable after the body: set by tx.Exec and, when the DDL
\* succeeded, overwritten by the ledger transition
LocalErr(ddlOk, ledOk) == ~ddlOk \/ ~ledOk

\* a deferred function that looks at the returned error instead of err
DeferredCommit_OnReturn(u) == u.ret = "nil"

\* defer func() { if err != nil { tx.Rollback(ctx) } else { tx.Commit(ctx) } }()
DeferredCommit(u) == ~u.err

\* tx.Commit(ctx), whose error is discarded: a cancelled ctx fails it before the
\* commit is sent, and the transaction is rolled back with its connection
Commit == ~Cancelled

\* executeDeleteQuery returns an error only if the ledger write failed
DeleteReturnsError(ddlOk, ledOk) == ~ledOk

\* a loop that is left before every deletion has been executed
DeletesComplete_Early == TRUE

\* for _, c := range deletions: the loop has run for every name of Delete
DeletesComplete == delDone = connectionUpdates.Delete

\* newRefreshConnectionState: poolsize := 1
poolsize == 1

\* the pool connections in use: one under the open transaction, one held by
\* writeComments
AcquiredConns ==
    (IF tx.open THEN 1 ELSE 0) + (IF comments.pass = "acquired" THEN 1 ELSE 0)

\* pool.Begin, pool.Acquire and pool.Exec wait until the pool has a connection to give
PoolHasConn == AcquiredConns < poolsize

\* a deferred function that leaves the transaction open
EndTx_Leak(t) == t

\* the deferred tx.Commit(ctx) or tx.Rollback(ctx) ends the transaction and returns
\* its connection to the pool
EndTx(t) == NoTx

\* executeDeleteQuery: tx, err := state.pool.Begin(ctx)
executeDeleteQuery_Begin(c) ==
    /\ pc = "delete"
    /\ UnitIdle
    /\ PoolHasConn
    /\ c \in connectionUpdates.Delete \ delDone
    /\ \E ok \in DbOutcomes :
         IF ok
         THEN /\ tx' = [open |-> TRUE, schema |-> schema, ledger |-> ledger]
              /\ cur' = Unit("delete", c)
              /\ UNCHANGED <<delDone, unitFailures>>
         ELSE /\ cur' = UnitNotBegun("delete", c)
              /\ delDone' = delDone \cup {c}
              /\ unitFailures' = unitFailures \cup {"begin"}
              /\ UNCHANGED tx
    /\ UNCHANGED <<pc, searchPath, connectionUpdates, res, schema, ledger, snapshotFile, plan,
                   updDone, errors, notification, dropsDone, saved, fanout, ctx,
                   comments, loops, clone, client, lock>>

\* executeDeleteQuery: drop schema, then onConnectionDeleted; on a failed drop onConnectionError
executeDeleteQuery_Exec ==
    /\ cur.kind = "delete"
    /\ cur.phase = "begun"
    /\ \E ddlOk \in DbOutcomes, ledOk \in DbOutcomes :
         LET c == cur.name
             txSchema == IF ddlOk THEN [tx.schema EXCEPT ![c] = FALSE] ELSE tx.schema
             written == IF ddlOk THEN onConnectionDeleted(tx.ledger, c)
                        ELSE onConnectionError(tx.ledger, c, DDLError)
         IN /\ tx' = [tx EXCEPT !.schema = txSchema,
                                !.ledger = IF ledOk THEN written ELSE tx.ledger]
            /\ cur' = [cur EXCEPT !.phase = "executed", !.ddl = Outcome(ddlOk),
                                  !.led = Outcome(ledOk), !.err = LocalErr(ddlOk, ledOk),
                                  !.ret = IF DeleteReturnsError(ddlOk, ledOk) THEN "err" ELSE "nil"]
            /\ unitFailures' = IF ledOk THEN unitFailures ELSE unitFailures \cup {"ledger"}
    /\ UNCHANGED <<pc, searchPath, connectionUpdates, res, schema, ledger, snapshotFile, delDone,
                   plan, updDone, errors, notification, dropsDone, saved, fanout, ctx,
                   comments, loops, clone, client, lock>>

\* executeDeleteQuery: the deferred Commit or Rollback; executeDeleteQueries collects the error
executeDeleteQuery_Defer ==
    /\ cur.kind = "delete"
    /\ cur.phase = "executed"
    /\ LET commit == DeferredCommit(cur) /\ Commit
       IN /\ schema' = IF commit THEN tx.schema ELSE schema
          /\ ledger' = IF commit THEN tx.ledger ELSE ledger
          /\ cur' = [cur EXCEPT !.phase = "ended",
                                !.end = IF commit THEN "commit" ELSE "rollback"]
    /\ tx' = EndTx(tx)
    /\ delDone' = delDone \cup {cur.name}
    /\ UNCHANGED <<pc, searchPath, connectionUpdates, res, snapshotFile, plan, updDone, errors,
                   notification, dropsDone, saved, fanout, unitFailures, ctx,
                   comments, loops, clone, client, lock>>

\* executeConnectionQueries: executeDeleteQueries has returned (its error is dropped),
\* then if numUpdates > 0 { state.executeUpdateQueries(ctx) }
executeConnectionQueries_afterDelete ==
    /\ pc = "delete"
    /\ UnitIdle
    /\ DeletesComplete
    /\ pc' = IF connectionUpdates.Update # {} THEN "validate" ELSE "complete"
    /\ UNCHANGED <<searchPath, connectionUpdates, res, schema, ledger, snapshotFile, tx, cur,
                   delDone, plan, updDone, errors, notification, dropsDone, saved, fanout,
                   unitFailures, ctx,
                   comments, loops, clone, client, lock>>

----------------------------------------------------------------------------
\* executeUpdateQueries

\* steampipeconfig.ValidatePlugins: the updates whose plugin fails the sdk version check
ValidatePlugins(u) == {n \in u.Update : u.Plugin[n] \in u.Invalid}

\* ConnectionStateMap.GetFirstSearchPathConnectionForPlugins: for every plugin the
\* first of its connections in the search path, or if none of them is in the
\* search path, the first of them by name
GetFirstSearchPathConnectionForPlugins(u, sp) ==
    LET inPath == {sp[i] : i \in DOMAIN sp} \cap u.Final
        first == {sp[i] : i \in {j \in DOMAIN sp :
                          /\ sp[j] \in u.Final
                          /\ \A k \in 1..(j - 1) :
                                sp[k] \in u.Final => u.Plugin[sp[k]] # u.Plugin[sp[j]]}}
        byName == {n \in u.Final :
                      /\ \A m \in inPath : u.Plugin[m] # u.Plugin[n]
                      /\ \A m \in u.Final : u.Plugin[m] = u.Plugin[n] => n <= m}
    IN first \cup byName

\* a planner that runs every validated update again in the second loop
populateInitialAndRemainingUpdates_All(validatedUpdates, u, sp) ==
    LET searchPathConnections == GetFirstSearchPathConnectionForPlugins(u, sp)
    IN [initialUpdates |-> {n \in searchPathConnections : n \in validatedUpdates},
        remainingUpdates |-> validatedUpdates]

\* a planner that does not look the exemplars up in validatedUpdates
populateInitialAndRemainingUpdates_NoLookup(validatedUpdates, u, sp) ==
    LET initialUpdates == GetFirstSearchPathConnectionForPlugins(u, sp)
    IN [initialUpdates |-> initialUpdates,
        remainingUpdates |-> {n \in validatedUpdates : n \notin initialUpdates}]

\* populateInitialAndRemainingUpdates
populateInitialAndRemainingUpdates(validatedUpdates, u, sp) ==
    LET searchPathConnections == GetFirstSearchPathConnectionForPlugins(u, sp)
        initialUpdates == {n \in searchPathConnections : n \in validatedUpdates}
    IN [initialUpdates |-> initialUpdates,
        remainingUpdates |-> {n \in validatedUpdates : n \notin initialUpdates}]


\* executeUpdateQueries, up to the first loop: ValidatePlugins and
\* populateInitialAndRemainingUpdates
executeUpdateQueries_plan ==
    /\ pc = "validate"
    /\ LET validationFailures == ValidatePlugins(connectionUpdates)
           validatedUpdates == connectionUpdates.Update \ validationFailures
           waves == populateInitialAndRemainingUpdates(validatedUpdates, connectionUpdates,
                                                       searchPath)
       IN /\ plan' = [validationFailures |-> validationFailures,
                      shouldDrop |-> {},
                      validatedUpdates |-> validatedUpdates,
                      initialUpdates |-> waves.initialUpdates,
                      remainingUpdates |-> waves.remainingUpdates]
          /\ res' = IF validationFailures # {} THEN AddWarning(res, "validation") ELSE res
    /\ pc' = "initial"
    /\ UNCHANGED <<searchPath, connectionUpdates, schema, ledger, snapshotFile, tx, cur,
                   delDone, updDone, errors, notification, dropsDone, saved, fanout,
                   unitFailures, ctx,
                   comments, loops, clone, client, lock>>

\* the connections of the loop executeUpdateQueries is in
Wave == IF pc = "initial" THEN plan.initialUpdates
        ELSE IF pc = "remaining" THEN plan.remainingUpdates
        ELSE {}

\* an import whose failure is returned to the caller
UpdateReturnsError_OnDDL(ddlOk, ledOk) == ~ddlOk \/ ~ledOk

\* executeUpdateQuery returns an error only if the ledger write failed
UpdateReturnsError(ddlOk, ledOk) == ~ledOk

\* a result that does not keep the failed connection
AddFailedConnection_Skip(r, c) == r

\* state.res.AddFailedConnection(connectionName, err.Error())
AddFailedConnection(r, c) == [r EXCEPT !.FailedConnections = @ \cup {c}]

\* executeUpdateQuery: tx, err := state.pool.Begin(ctx)
executeUpdateQuery_Begin(c) ==
    /\ pc \in {"initial", "remaining"}
    /\ UnitIdle
    /\ PoolHasConn
    /\ c \in Wave \ updDone
    /\ \E ok \in DbOutcomes :
         IF ok
         THEN /\ tx' = [open |-> TRUE, schema |-> schema, ledger |-> ledger]
              /\ cur' = Unit("update", c)
              /\ UNCHANGED <<updDone, errors, unitFailures>>
         ELSE /\ cur' = UnitNotBegun("update", c)
              /\ updDone' = updDone \cup {c}
              /\ errors' = TRUE
              /\ unitFailures' = unitFailures \cup {"begin"}
              /\ UNCHANGED tx
    /\ UNCHANGED <<pc, searchPath, connectionUpdates, res, schema, ledger, snapshotFile, delDone,
                   plan, notification, dropsDone, saved, fanout, ctx,
                   comments, loops, clone, client, lock>>

\* executeUpdateQuery: import foreign schema, then onConnectionReady; on a failed
\* import onConnectionError and res.AddFailedConnection
executeUpdateQuery_Exec ==
    /\ cur.kind = "update"
    /\ cur.phase = "begun"
    /\ \E ddlOk \in DbOutcomes, ledOk \in DbOutcomes :
         LET c == cur.name
             txSchema == IF ddlOk THEN [tx.schema EXCEPT ![c] = TRUE] ELSE tx.schema
             written == IF ddlOk THEN onConnectionReady(tx.ledger, c)
                        ELSE onConnectionError(tx.ledger, c, DDLError)
         IN /\ tx' = [tx EXCEPT !.schema = txSchema,
                                !.ledger = IF ledOk THEN written ELSE tx.ledger]
            /\ cur' = [cur EXCEPT !.phase = "executed", !.ddl = Outcome(ddlOk),
                                  !.led = Outcome(ledOk), !.err = LocalErr(ddlOk, ledOk),
                                  !.ret = IF UpdateReturnsError(ddlOk, ledOk) THEN "err" ELSE "nil"]
            /\ res' = IF ddlOk THEN res ELSE AddFailedConnection(res, c)
            /\ unitFailures' = IF ledOk THEN unitFailures ELSE unitFailures \cup {"ledger"}
    /\ UNCHANGED <<pc, searchPath, connectionUpdates, schema, ledger, snapshotFile, delDone,
                   plan, updDone, errors, notification, dropsDone, saved, fanout, ctx,
                   comments, loops, clone, client, lock>>

\* executeUpdateQuery: the deferred Commit or Rollback; the caller appends a returned error
executeUpdateQuery_Defer ==
    /\ cur.kind = "update"
    /\ cur.phase = "executed"
    /\ LET commit == DeferredCommit(cur) /\ Commit
       IN /\ schema' = IF commit THEN tx.schema ELSE schema
          /\ ledger' = IF commit THEN tx.ledger ELSE ledger
          /\ cur' = [cur EXCEPT !.phase = "ended",
                                !.end = IF commit THEN "commit" ELSE "rollback"]
    /\ tx' = EndTx(tx)
    /\ updDone' = updDone \cup {cur.name}
    /\ errors' = (errors \/ cur.ret = "err")
    /\ UNCHANGED <<pc, searchPath, connectionUpdates, res, snapshotFile, delDone, plan,
                   notification, dropsDone, saved, fanout, unitFailures, ctx,
                   comments, loops, clone, client, lock>>

\* a first loop after which the remaining updates start without the notification
AfterInitialUpdates_NoNotify(errs) == IF errs THEN "complete" ELSE "remaining"

\* a first loop whose errors do not stop executeUpdateQueries
AfterInitialUpdates_Continue(errs) == "notify"

\* a first loop that is entered again after an error
AfterInitialUpdates_Retry(errs) == IF errs THEN "initial" ELSE "notify"

\* if len(errors) > 0 { state.res.Error = ...; return }, else the notification is next
AfterInitialUpdates(errs) == IF errs THEN "complete" ELSE "notify"

\* executeUpdateQueries: the loop over initialUpdates has ended
executeUpdateQueries_afterInitial ==
    /\ pc = "initial"
    /\ UnitIdle
    /\ plan.initialUpdates \subseteq updDone
    /\ res' = IF errors THEN [res EXCEPT !.Error = "ledger"] ELSE res
    /\ pc' = AfterInitialUpdates(errors)
    /\ UNCHANGED <<searchPath, connectionUpdates, schema, ledger, snapshotFile, tx, cur, delDone,
                   plan, updDone, errors, notification, dropsDone, saved, fanout, unitFailures, ctx,
                   comments, loops, clone, client, lock>>

\* a notification whose failure makes executeUpdateQueries return
AfterNotification_Return(ok) == IF ok THEN "remaining" ELSE "complete"

\* if err := state.sendPostgreSchemaNotification(...); err != nil { just log }
AfterNotification(ok) == "remaining"

\* sendPostgreSchemaNotification(ctx, state.connectionUpdates.Delete, initialUpdates):
\* the payload is built from the two maps; a failure to connect or to send is an
\* error that the caller only logs
sendPostgreSchemaNotification ==
    /\ pc = "notify"
    /\ \E ok \in DbOutcomes :
         /\ notification' = [status |-> IF ok THEN "sent" ELSE "failed",
                             updated |-> plan.initialUpdates,
                             deleted |-> connectionUpdates.Delete,
                             count |-> notification.count + 1]
         /\ pc' = AfterNotification(ok)
    /\ UNCHANGED <<searchPath, connectionUpdates, res, schema, ledger, snapshotFile, tx, cur,
                   delDone, plan, updDone, errors, dropsDone, saved, fanout, unitFailures, ctx,
                   comments, loops, clone, client, lock>>

\* executeUpdateQueries: the loop over remainingUpdates has ended
executeUpdateQueries_afterRemaining ==
    /\ pc = "remaining"
    /\ UnitIdle
    /\ plan.remainingUpdates \subseteq updDone
    /\ res' = IF errors THEN [res EXCEPT !.Error = "ledger"] ELSE res
    /\ pc' = "dropInvalid"
    /\ UNCHANGED <<searchPath, connectionUpdates, schema, ledger, snapshotFile, tx, cur, delDone,
                   plan, updDone, errors, notification, dropsDone, saved, fanout, unitFailures, ctx,
                   comments, loops, clone, client, lock>>

\* a loop that drops the schema of every validation failure
ExecutesDrop_Always(ShouldDropIfExists) == TRUE

\* if failure.ShouldDropIfExists { state.pool.Exec(ctx, GetDeleteConnectionQuery(...)) }
ExecutesDrop(ShouldDropIfExists) == ShouldDropIfExists

\* for _, failure := range validationFailures: pool.Exec of the drop when
\* failure.ShouldDropIfExists; a failed drop is only logged.  plan.shouldDrop
\* is the loop variable: it holds the failure of this iteration if ValidatePlugins
\* has flagged it, until the loop ends.
executeUpdateQueries_dropInvalid(f) ==
    /\ pc = "dropInvalid"
    /\ f \in plan.validationFailures \ dropsDone
    /\ \E ShouldDropIfExists \in BOOLEAN, ok \in DbOutcomes :
         /\ ExecutesDrop(ShouldDropIfExists) => PoolHasConn
         /\ plan' = [plan EXCEPT !.shouldDrop = IF ShouldDropIfExists THEN {f} ELSE {}]
         /\ schema' = IF ExecutesDrop(ShouldDropIfExists) /\ ok
                      THEN [schema EXCEPT ![f] = FALSE]
                      ELSE schema
    /\ dropsDone' = dropsDone \cup {f}
    /\ UNCHANGED <<pc, searchPath, connectionUpdates, res, ledger, snapshotFile, tx, cur, delDone,
                   updDone, errors, notification, saved, fanout, unitFailures, ctx,
                   comments, loops, clone, client, lock>>

\* writeComments: the keys of validatedPlugins that are not in res.FailedConnections
CommentedConnections(validatedPlugins, r) == validatedPlugins \ r.FailedConnections

\* if viper.GetBool(constants.ArgSchemaComments) { state.writeComments(ctx,
\* validatedPlugins) }: the flag is set.  writeComments acquires a pool connection
\* (a failure is logged and it returns) and runs one transaction of comment
\* statements for every connection it does not skip; a failed transaction is only
\* logged, so that its outcome changes nothing.  The connection is held until
\* writeComments returns.
writeComments ==
    /\ pc = "dropInvalid"
    /\ plan.validationFailures \subseteq dropsDone
    /\ PoolHasConn
    /\ \E acquired \in DbOutcomes :
         IF acquired
         THEN LET attempted == CommentedConnections(plan.validatedUpdates, res)
              IN comments' = [pass |-> "acquired", attempted |-> attempted]
         ELSE comments' = [pass |-> "failed", attempted |-> {}]
    /\ pc' = "comments"
    /\ plan' = [plan EXCEPT !.shouldDrop = {}]
    /\ UNCHANGED <<searchPath, connectionUpdates, res, schema, ledger, snapshotFile, tx, cur,
                   delDone, updDone, errors, notification, dropsDone, saved, fanout,
                   unitFailures, ctx, loops, clone, client, lock>>

\* executeUpdateQueries returns to executeConnectionQueries and refreshConnections,
\* after writeComments (whose deferred conn.Release() has run) or, the flag not
\* being set, after the loop over validationFailures
executeUpdateQueries_return ==
    /\ \/ pc = "dropInvalid" /\ plan.validationFailures \subseteq dropsDone
       \/ pc = "comments"
    /\ pc' = "complete"
    /\ comments' = NoComments
    /\ plan' = [plan EXCEPT !.shouldDrop = {}]
    /\ UNCHANGED <<searchPath, connectionUpdates, res, schema, ledger, snapshotFile, tx, cur,
                   delDone, updDone, errors, notification, dropsDone, saved, fanout,
                   unitFailures, ctx, loops, clone, client, lock>>

----------------------------------------------------------------------------
\* refreshConnections, after executeConnectionQueries, and its deferred functions

\* if state.res.Error != nil { return }; state.res.UpdatedConnections = true
refreshConnections_complete ==
    /\ pc = "complete"
    /\ res' = IF res.Error # NoError THEN res ELSE [res EXCEPT !.UpdatedConnections = TRUE]
    /\ pc' = "deferSave"
    /\ UNCHANGED <<searchPath, connectionUpdates, schema, ledger, snapshotFile, tx, cur, delDone,
                   plan, updDone, errors, notification, dropsDone, saved, fanout, unitFailures, ctx,
                   comments, loops, clone, client, lock>>

\* a deferred function that saves whatever the result is
ShouldSave_Always(r) == TRUE

\* if state.res.Error == nil { SaveConnectionStateFile(...) }
ShouldSave(r) == r.Error = NoError

\* the second deferred function: SaveConnectionStateFile; a failed write is a fatal error
SaveConnectionStateFile ==
    /\ pc = "deferSave"
    /\ IF ShouldSave(res)
       THEN \E ok \in BOOLEAN :
              IF ok
              THEN /\ snapshotFile' = TRUE
                   /\ saved' = saved + 1
                   /\ UNCHANGED res
              ELSE /\ res' = [res EXCEPT !.Error = "save"]
                   /\ UNCHANGED <<snapshotFile, saved>>
       ELSE UNCHANGED <<res, snapshotFile, saved>>
    /\ pc' = "deferSetAll"
    /\ UNCHANGED <<searchPath, connectionUpdates, schema, ledger, tx, cur, delDone, plan,
                   updDone, errors, notification, dropsDone, fanout, unitFailures, ctx,
                   comments, loops, clone, client, lock>>

\* a fan-out that only covers the connections being updated
FanoutRows_UpdatesOnly(l) == LoadConnectionState(l) \cap connectionUpdates.Update

\* for name := range currentConnectionState: one query per row of the ledger
FanoutRows(l) == LoadConnectionState(l)

\* the ledger after the fan-out transaction has committed
AllRowsToError(l) ==
    [n \in Names |-> IF n \in FanoutRows(l) THEN Row("error", RefreshError) ELSE l[n]]

\* how setAllConnectionStateToError can end: pool.Acquire(ctx) fails first when
\* ctx is cancelled
FanoutOutcomes ==
    IF Cancelled THEN {"acquire failed"}
    ELSE {"acquire failed", "load failed", "transaction failed", "committed"}

\* the first deferred function: if state.res.Error != nil, setAllConnectionStateToError
setAllConnectionStateToError ==
    /\ pc = "deferSetAll"
    /\ IF res.Error # NoError
       THEN \E outcome \in FanoutOutcomes :
              /\ PoolHasConn
              /\ fanout' = outcome
              /\ ledger' = IF outcome = "committed" THEN AllRowsToError(ledger) ELSE ledger
       ELSE UNCHANGED <<fanout, ledger>>
    /\ pc' = "done"
    /\ UNCHANGED <<searchPath, connectionUpdates, res, schema, snapshotFile, tx, cur, delDone,
                   plan, updDone, errors, notification, dropsDone, saved, unitFailures, ctx,
                   comments, loops, clone, client, lock>>

----------------------------------------------------------------------------

Next ==
    \/ buildConnectionUpdates
    \/ refreshConnections_buildFailed
    \/ DeleteConnectionStateFile
    \/ refreshConnections_start
    \/ \E c \in Names : executeDeleteQuery_Begin(c)
    \/ executeDeleteQuery_Exec
    \/ executeDeleteQuery_Defer
    \/ executeConnectionQueries_afterDelete
    \/ executeUpdateQueries_plan
    \/ \E c \in Names : executeUpdateQuery_Begin(c)
    \/ executeUpdateQuery_Exec
    \/ executeUpdateQuery_Defer
    \/ executeUpdateQueries_afterInitial
    \/ sendPostgreSchemaNotification
    \/ executeUpdateQueries_afterRemaining
    \/ \E f \in Names : executeUpdateQueries_dropInvalid(f)
    \/ writeComments
    \/ executeUpdateQueries_return
    \/ refreshConnections_complete
    \/ SaveConnectionStateFile
    \/ setAllConnectionStateToError

Spec == Init /\ [][Next]_vars

\* the units of the loop in progress that have not returned yet
PendingUnits ==
    IF pc = "delete" THEN connectionUpdates.Delete \ delDone
    ELSE Wave \ updDone

\* the caller cancels ctx while refreshConnections runs; ctx keeps the position, the
\* units still to return and whether the refresh had met no failure until then
Cancel ==
    /\ ~Cancelled
    /\ pc # "done"
    /\ ctx' = [at |-> pc, pending |-> PendingUnits,
                clean |-> (res.Error = NoError /\ unitFailures = {})]
    /\ UNCHANGED <<pc, searchPath, connectionUpdates, res, schema, ledger, snapshotFile, tx, cur,
                   delDone, plan, updDone, errors, notification, dropsDone, saved, fanout,
                   unitFailures, comments, loops, clone, client, lock>>

NextCancel == Next \/ Cancel

\* a refresh whose context may be cancelled at any point
SpecCancel == Init /\ [][NextCancel]_vars

----------------------------------------------------------------------------
\* Properties

\* the executeUpdateQuery call for n has begun (and perhaps returned)
UpdateStarted(n) == n \in updDone \/ (cur.kind = "update" /\ cur.name = n)

\* executeConnectionQueries has returned
QueriesReturned == pc \in {"complete", "deferSave", "deferSetAll", "done"}

\* the updates that pass validation
ValidatedUpdates == connectionUpdates.Update \ ValidatePlugins(connectionUpdates)

\* C1: within one refresh every delete work unit has ended before the first
\* update work unit begins; in particular the drop of a name that is deleted
\* and re-created has ended before the import for that name starts.
C1_DeletesBeforeUpdates ==
    \A n \in Names :
        UpdateStarted(n) =>
            /\ delDone = connectionUpdates.Delete
            /\ cur.kind # "delete"

\* C1 witness: the import of a re-created name begins after its drop committed
C1_Witness ==
    /\ cur.kind = "update"
    /\ cur.phase = "begun"
    /\ cur.name \in connectionUpdates.Delete
    /\ ~schema[cur.name]
    /\ ledger[cur.name] = NoRow

\* C2: every exemplar (Initial) work unit has ended and the schema notification
\* has been sent before any remainder work unit starts, so a plugin's exemplar
\* transaction ends before any non-exemplar transaction of that plugin begins.
C2_ExemplarsBeforeRemainder ==
    \A n \in plan.remainingUpdates :
        UpdateStarted(n) =>
            /\ plan.initialUpdates \subseteq updDone
            /\ notification.status # "none"

\* C2 witness: a remainder unit has begun whose plugin has an exemplar in Initial
C2_Witness ==
    /\ cur.kind = "update"
    /\ cur.phase = "begun"
    /\ cur.name \in plan.remainingUpdates
    /\ \E e \in plan.initialUpdates :
          connectionUpdates.Plugin[e] = connectionUpdates.Plugin[cur.name]
    /\ notification.status = "sent"

\* C3: when the DDL of a connection's work unit fails then, once the unit has
\* ended, the connection's ledger row is in state error with the captured message.
C3_DDLFailureRecorded ==
    (cur.phase = "ended" /\ cur.ddl = "fail") => ledger[cur.name] = Row("error", DDLError)

C5_LedgerFailureFatal ==
    (pc = "done" /\ "ledger" \in unitFailures) => res.Error # NoError

\* C6: the snapshot file is saved at most once per refresh, only after every
\* delete, exemplar and remainder work unit has ended, and only when the result
\* has no fatal error.
C6_SaveAfterAllUnits ==
    /\ saved <= 1
    /\ saved = 1 =>
          /\ res.Error = NoError
          /\ UnitIdle
          /\ ~tx.open
          /\ delDone = connectionUpdates.Delete
          /\ updDone = ValidatedUpdates

\* C6 witness: the file was saved after a delete, an exemplar and a remainder unit
C6_Witness ==
    /\ saved = 1
    /\ delDone # {}
    /\ plan.initialUpdates # {}
    /\ plan.remainingUpdates # {}

\* C7 as stated: from the start of the refresh until the save the file is absent,
\* and after any refresh that ends with a fatal error the file is absent.
C7_AbsentFromStart ==
    /\ (pc # "start" /\ saved = 0) => ~snapshotFile
    /\ (pc = "done" /\ res.Error # NoError) => ~snapshotFile

\* C7 amended: the file is deleted once the connection updates have been built
\* without error; from then until the save it is absent, also after a fatal error
\* raised after the build; a refresh that fails to build leaves the file in place.
C7_AbsentAfterBuild ==
    /\ (pc \notin {"start", "built"} /\ res.Error # "build" /\ saved = 0) => ~snapshotFile
    /\ res.Error = "build" => snapshotFile

\* C7 witness: a refresh ended with a fatal error raised after the build
C7_Witness ==
    /\ pc = "done"
    /\ res.Error \in {"start", "ledger", "save"}
    /\ ~snapshotFile

C9_SchemaIffReady ==
    (pc = "done" /\ res.Error = NoError) =>
        \A n \in Names : schema[n] <=> ledger[n].state = "ready"

\* C10 as stated: after a refresh that ended with a fatal error and could load
\* the ledger, every row of the ledger is in state error with the refresh error.
C10_AllRowsError ==
    (pc = "done" /\ res.Error # NoError /\ fanout \notin {"acquire failed", "load failed"}) =>
        \A n \in LoadConnectionState(ledger) : ledger[n] = Row("error", RefreshError)

\* C10 amended: the fan-out sets every row of the ledger to error with the refresh
\* error when its transaction commits, and changes no row otherwise (no fatal
\* error, no connection, ledger not loaded, transaction failed): all or nothing.
C10_FanoutAllOrNothing ==
    [][(pc = "deferSetAll" /\ pc' = "done") =>
          IF res.Error # NoError /\ fanout' = "committed"
          THEN ledger' = [n \in Names |-> IF ledger[n].state # "none"
                                          THEN Row("error", RefreshError) ELSE ledger[n]]
          ELSE ledger' = ledger]_vars

\* C10 witness: the fan-out committed over a ledger with rows in different states
C10_Witness ==
    /\ pc = "done"
    /\ fanout = "committed"
    /\ LoadConnectionState(ledger) = Names
    /\ \A n \in Names : ledger[n] = Row("error", RefreshError)
    /\ connectionUpdates.Update # Names

----------------------------------------------------------------------------
\* Cancellation

\* ctx was cancelled inside one of the three loops over work units, before every
\* unit of the loop had returned and before anything had failed
CancelledMidWave ==
    /\ ctx.at \in {"delete", "initial", "remaining"}
    /\ ctx.pending # {}
    /\ ctx.clean

\* C11: a refresh cancelled mid-wave, whose snapshot write did not fail, ends
\* without having invoked setAllConnectionStateToError.
C11_NoFanoutOnCancel ==
    (pc = "done" /\ CancelledMidWave /\ res.Error # "save") => fanout = "none"

\* C12: after a cancellation that fired in the remainder loop, the rows the exemplar
\* loop committed as ready are ready, every remainder row is ready (its unit
\* committed) or still updating, no transaction is open and the snapshot file has
\* not been written.
C12_CancelAfterNotify ==
    (pc = "done" /\ CancelledMidWave /\ ctx.at = "remaining") =>
        /\ \A n \in plan.initialUpdates \ res.FailedConnections : ledger[n].state = "ready"
        /\ \A n \in plan.remainingUpdates : ledger[n].state \in {"ready", "updating"}
        /\ ~tx.open
        /\ saved = 0

----------------------------------------------------------------------------
\* The schema notification

\* the exemplars whose row is ready: start left every one of them updating or
\* deleting, so these are the rows the exemplar loop has made ready
ExemplarsMadeReady == {n \in plan.initialUpdates : ledger[n].state = "ready"}

\* C13: the updated list of the notification is exactly the set of exemplars
\* whose row the exemplar loop made ready.
C13_UpdatedAreReady ==
    (pc = "remaining" /\ notification.status = "sent") =>
        notification.updated = ExemplarsMadeReady

\* the exemplar loop collected an error: executeUpdateQueries returned before the
\* notification
ExemplarWaveFatal == errors /\ notification.count = 0

\* C14: once executeConnectionQueries has returned, a refresh that executed a
\* work unit and whose exemplar loop was not fatal has sent exactly one
\* notification, whose deleted list is the Delete set.
C14_NotifiesOnce ==
    (QueriesReturned /\ delDone \cup updDone # {} /\ ~ExemplarWaveFatal) =>
        /\ notification.count = 1
        /\ notification.deleted = connectionUpdates.Delete

\* C15: a notification that fails changes neither res (its Error and
\* FailedConnections) nor the collected errors and is followed by the remainder
\* loop, which runs to its end.
C15_NotifyFailureSwallowed ==
    /\ [][(pc = "notify" /\ notification'.status = "failed") =>
            (res' = res /\ errors' = errors /\ pc' = "remaining")]_vars
    /\ []((notification.status = "failed" /\ QueriesReturned) =>
            plan.remainingUpdates \subseteq updDone)

\* C15 witness: the notification failed, the remainder unit committed afterwards
\* and the refresh ended without error
C15_Witness ==
    /\ pc = "done"
    /\ notification.status = "failed"
    /\ plan.remainingUpdates # {}
    /\ \A n \in plan.remainingUpdates : ledger[n].state = "ready"
    /\ res.Error = NoError
    /\ res.FailedConnections = {}

----------------------------------------------------------------------------
\* Isolation and the result

\* a step of a work unit: its Begin, its statements or its deferred function
UnitStep == cur' # cur

\* the refresh has ended and no unit met a failure other than a failed DDL
\* statement, nor did the build, the start or the snapshot write fail
OnlyDDLFailures ==
    /\ pc = "done"
    /\ unitFailures = {}
    /\ res.Error \notin {"build", "start", "save"}

ExactlyOne(a, b, c) == (a /\ ~b /\ ~c) \/ (~a /\ b /\ ~c) \/ (~a /\ ~b /\ c)

\* C17: after a refresh that ends without fatal error, every declared connection
\* is in exactly one of: row ready, row error, failed connections of the result.
C17_Exhaustive ==
    (pc = "done" /\ res.Error = NoError) =>
        \A c \in connectionUpdates.Final :
            ExactlyOne(ledger[c].state = "ready", ledger[c].state = "error",
                       c \in res.FailedConnections)

\* C18 as stated: every unit whose DDL (import or drop) failed has its connection
\* in the failed connections of the result.
C18_DDLFailureListed ==
    (cur.phase \in {"executed", "ended"} /\ cur.ddl = "fail") =>
        cur.name \in res.FailedConnections

\* C18, amended: the failed connections only ever grow, and only by the name of an
\* update unit whose import has just failed; an update unit that has run its
\* import is listed if and only if the import failed; a delete unit lists
\* nothing; and a refresh whose only failures are failed DDL statements ends
\* without fatal error and with the snapshot written.
C18_ImportFailureListed ==
    /\ [][res'.FailedConnections # res.FailedConnections =>
            /\ cur.kind = "update" /\ cur.phase = "begun" /\ cur'.ddl = "fail"
            /\ res'.FailedConnections = res.FailedConnections \cup {cur.name}]_vars
    /\ []((cur.kind = "update" /\ cur.ddl # "none") =>
            (cur.name \in res.FailedConnections <=> cur.ddl = "fail"))
    /\ [](pc = "delete" => res.FailedConnections = {})
    /\ [](OnlyDDLFailures => (res.Error = NoError /\ saved = 1 /\ snapshotFile))

\* C18 witness: a drop failed and an import failed, both with their ledger write
\* done; only the import is listed, and the snapshot is written
C18_Witness ==
    /\ OnlyDDLFailures
    /\ saved = 1
    /\ cur.kind = "update"
    /\ cur.ddl = "fail"
    /\ res.FailedConnections = {cur.name}
    /\ \E d \in connectionUpdates.Delete \ connectionUpdates.Update :
           ledger[d].state = "deleting"

\* the connection updates were built and hold nothing to update or delete
NothingToDo ==
    /\ pc # "start"
    /\ res.Error # "build"
    /\ ~HasUpdates(connectionUpdates)

\* the number of missing-plugin warnings of the result
MissingPluginWarnings ==
    Cardinality({i \in DOMAIN res.Warnings : res.Warnings[i] = "missing plugins"})

\* C19 as stated: with nothing to update or delete no step changes a ledger row.
C19_LedgerUnchanged == [][NothingToDo => ledger' = ledger]_vars

\* C19, amended: with nothing to update or delete no step begins a work unit or changes a
\* schema, and none changes a ledger row unless the refresh has a fatal error;
\* once the ledger store has been started the result has UpdatedConnections
\* false, no failed connection, and one missing-plugin warning if MissingPlugins
\* is non-empty and none if it is empty.
C19_NothingToDo ==
    /\ [][NothingToDo =>
            /\ schema' = schema
            /\ cur' = NoUnit
            /\ res'.Error = NoError => ledger' = ledger]_vars
    /\ []((NothingToDo /\ pc \in {"deferSave", "deferSetAll", "done"}) =>
            /\ ~res.UpdatedConnections
            /\ res.FailedConnections = {}
            /\ delDone = {} /\ updDone = {} /\ dropsDone = {}
            /\ MissingPluginWarnings = IF connectionUpdates.MissingPlugins # {} THEN 1 ELSE 0)

\* C19 witness: a refresh whose only declared connection has a missing plugin ends
\* with one warning next to a ledger that has a ready row
C19_Witness ==
    /\ pc = "done"
    /\ NothingToDo
    /\ res.Error = NoError
    /\ connectionUpdates.MissingPlugins # {}
    /\ Len(res.Warnings) = 1
    /\ \E n \in Names : ledger[n] = Row("ready", "")

----------------------------------------------------------------------------
\* Cloning

\* the plugins whose schema mode is static: the first plugin is, the others are
\* dynamic
StaticPlugins == {1}

\* ConnectionState.CanCloneSchema, whose result executeUpdateQueries discards
CanCloneSchema(u, n) == u.Plugin[n] \in StaticPlugins

\* C20: the unit of a remainder connection of a static plugin executes
\* clone_foreign_schema, not import foreign schema.
C20_RemainderCloned ==
    (/\ cur.kind = "update"
     /\ cur.name \in plan.remainingUpdates
     /\ cur.phase \in {"begun", "executed", "ended"}
     /\ cur.end # "nobegin"
     /\ CanCloneSchema(connectionUpdates, cur.name)) =>
        cur.sql = CloneForeignSchema

----------------------------------------------------------------------------
\* cloneConnectionSchemas, called on its own: the main goroutine, the collector
\* goroutine and one worker goroutine per cloneable connection

MaxPoolSize == 2

\* the exemplar of plugin p, which the exemplar loop has imported
Exemplar(p) == NumConnections + p

\* the variables a call of cloneConnectionSchemas never writes
outsideClone == <<pc, searchPath, connectionUpdates, snapshotFile, tx, cur, delDone, plan,
                  updDone, errors, notification, dropsDone, saved, fanout, unitFailures, ctx,
                  comments, loops, client, lock>>

\* the state at the call: every cloneable connection is an update whose row start
\* has set to updating; pluginMap holds the exemplar of every plugin
CloneCall(cloneable, maxConns) ==
    [pc |-> "loop", maxConns |-> maxConns, cloneableConnections |-> cloneable,
     worker |-> [n \in Names |-> "none"],
     exemplarSchemaName |-> [n \in Names |-> 0],
     sqls |-> [n \in Names |-> <<>>],
     permits |-> 0, released |-> [n \in Names |-> 0], wg |-> 0,
     pluginMapMut |-> 0, pluginMap |-> [p \in Plugins |-> Exemplar(p)],
     collector |-> "select", received |-> 0, sent |-> {}, errors |-> {}, idx |-> 0,
     returned |-> {}]

InitClone ==
    /\ \E cloneable \in SUBSET Names, plug \in PluginAssignments, maxConns \in 1..MaxPoolSize :
         /\ connectionUpdates = [NoUpdates EXCEPT !.Update = cloneable, !.Plugin = plug,
                                                  !.Final = cloneable]
         /\ ledger = [n \in Names |-> IF n \in cloneable THEN Row("updating", "") ELSE NoRow]
         /\ clone = CloneCall(cloneable, maxConns)
    /\ pc = "remaining"
    /\ searchPath = Ascending
    /\ res = [Error |-> NoError, FailedConnections |-> {}, UpdatedConnections |-> FALSE,
              Warnings |-> <<>>]
    /\ schema = NoSchemas
    /\ snapshotFile = FALSE
    /\ tx = NoTx
    /\ cur = NoUnit
    /\ delDone = {}
    /\ plan = NoPlan
    /\ updDone = {}
    /\ errors = FALSE
    /\ notification = NoNotification
    /\ dropsDone = {}
    /\ saved = 0
    /\ fanout = "none"
    /\ unitFailures = {}
    /\ ctx = Background
    /\ comments = NoComments
    /\ loops = NoLoops
    /\ client = NoClient
    /\ lock = NoLock

\* a semaphore that never blocks
SemAvailable_Always(c) == TRUE

\* sem.Acquire(ctx, 1) returns at once only while a permit is free
SemAvailable(c) == c.permits < c.maxConns

\* for n, d := range cloneableConnections: wg.Add(1), sem.Acquire, go func(n, d)
clone_go(n) ==
    /\ clone.pc = "loop"
    /\ n \in clone.cloneableConnections
    /\ clone.worker[n] = "none"
    /\ SemAvailable(clone)
    /\ clone' = [clone EXCEPT !.wg = @ + 1, !.permits = @ + 1, !.worker[n] = "read"]
    /\ UNCHANGED <<outsideClone, schema, ledger, res>>

\* worker: exemplarSchemaName := pluginMap[connectionData.Plugin], without the mutex
clone_read(n) ==
    /\ clone.pc # "none"
    /\ clone.worker[n] = "read"
    /\ clone' = [clone EXCEPT
                    !.exemplarSchemaName[n] = clone.pluginMap[connectionUpdates.Plugin[n]],
                    !.worker[n] = "exec"]
    /\ UNCHANGED <<outsideClone, schema, ledger, res>>

\* worker: state.executeUpdateQuery(ctx, sql, connectionName) with the clone
\* statement: the whole unit, in a transaction of its own; then the error is sent
\* or the mutex is taken
clone_exec(n) ==
    /\ clone.pc # "none"
    /\ clone.worker[n] = "exec"
    /\ \E began \in BOOLEAN, ddlOk \in BOOLEAN, ledOk \in BOOLEAN :
         LET commit == began /\ ~LocalErr(ddlOk, ledOk)
             err == ~began \/ UpdateReturnsError(ddlOk, ledOk)
         IN /\ ~began => (ddlOk /\ ledOk)
            /\ Cancelled => ~began
            /\ schema' = IF commit THEN [schema EXCEPT ![n] = TRUE] ELSE schema
            /\ ledger' = IF commit THEN onConnectionReady(ledger, n) ELSE ledger
            /\ res' = IF began /\ ~ddlOk THEN AddFailedConnection(res, n) ELSE res
            /\ clone' = [clone EXCEPT !.sqls[n] = Append(@, CloneForeignSchema),
                                      !.worker[n] = IF err THEN "sendErr" ELSE "lock"]
    /\ UNCHANGED outsideClone

\* worker: pluginMapMut.Lock()
clone_lock(n) ==
    /\ clone.pc # "none"
    /\ clone.worker[n] = "lock"
    /\ clone.pluginMapMut = 0
    /\ clone' = [clone EXCEPT !.pluginMapMut = n, !.worker[n] = "write"]
    /\ UNCHANGED <<outsideClone, schema, ledger, res>>

\* worker: pluginMap[connectionData.Plugin] = connectionName; pluginMapMut.Unlock()
clone_write(n) ==
    /\ clone.pc # "none"
    /\ clone.worker[n] = "write"
    /\ clone' = [clone EXCEPT !.pluginMap[connectionUpdates.Plugin[n]] = n,
                              !.pluginMapMut = 0, !.worker[n] = "sendProgress"]
    /\ UNCHANGED <<outsideClone, schema, ledger, res>>

\* worker: errChan <- connectionError{connectionName, err}, received by the
\* collector's select; the worker returns
clone_sendErr(n) ==
    /\ clone.pc # "none"
    /\ clone.worker[n] = "sendErr"
    /\ clone.collector = "select"
    /\ clone' = [clone EXCEPT !.collector = "received", !.received = n,
                              !.sent = @ \cup {n}, !.worker[n] = "done"]
    /\ UNCHANGED <<outsideClone, schema, ledger, res>>

\* collector: errors = append(errors, connectionError.err), then
\* state.tableUpdater.onConnectionError(ctx, nil, name, err), whose error is dropped
collector_error ==
    /\ clone.collector = "received"
    /\ \E ok \in BOOLEAN :
         ledger' = IF ok THEN onConnectionError(ledger, clone.received, DDLError) ELSE ledger
    /\ clone' = [clone EXCEPT !.errors = @ \cup {clone.received}, !.collector = "select",
                              !.received = 0]
    /\ UNCHANGED <<outsideClone, schema, res>>

\* worker: progressChan <- connectionName, received by the collector: idx++
clone_sendProgress(n) ==
    /\ clone.pc # "none"
    /\ clone.worker[n] = "sendProgress"
    /\ clone.collector = "select"
    /\ clone' = [clone EXCEPT !.idx = @ + 1, !.worker[n] = "done"]
    /\ UNCHANGED <<outsideClone, schema, ledger, res>>

\* worker, deferred: wg.Done()
clone_done(n) ==
    /\ clone.pc # "none"
    /\ clone.worker[n] = "done"
    /\ clone' = [clone EXCEPT !.wg = @ - 1, !.worker[n] = "release"]
    /\ UNCHANGED <<outsideClone, schema, ledger, res>>

\* worker, deferred: sem.Release(1); the goroutine exits
clone_release(n) ==
    /\ clone.pc # "none"
    /\ clone.worker[n] = "release"
    /\ clone' = [clone EXCEPT !.permits = @ - 1, !.released[n] = @ + 1,
                              !.worker[n] = "exited"]
    /\ UNCHANGED <<outsideClone, schema, ledger, res>>

\* main: the loop has started every worker; wg.Wait() returns; close(progressChan)
clone_wait ==
    /\ clone.pc = "loop"
    /\ \A n \in clone.cloneableConnections : clone.worker[n] # "none"
    /\ clone.wg = 0
    /\ clone' = [clone EXCEPT !.pc = "closed"]
    /\ UNCHANGED <<outsideClone, schema, ledger, res>>

\* collector: the receive from the closed progressChan yields "": return
collector_return ==
    /\ clone.pc \in {"closed", "returned"}
    /\ clone.collector = "select"
    /\ clone' = [clone EXCEPT !.collector = "returned"]
    /\ UNCHANGED <<outsideClone, schema, ledger, res>>

\* main: return error_helpers.CombineErrors(errors...), reading errors while the
\* collector may still be about to append to it
clone_return ==
    /\ clone.pc = "closed"
    /\ clone' = [clone EXCEPT !.pc = "returned", !.returned = clone.errors]
    /\ UNCHANGED <<outsideClone, schema, ledger, res>>

NextClone ==
    \/ \E n \in Names : clone_go(n)
    \/ \E n \in Names : clone_read(n)
    \/ \E n \in Names : clone_exec(n)
    \/ \E n \in Names : clone_lock(n)
    \/ \E n \in Names : clone_write(n)
    \/ \E n \in Names : clone_sendErr(n)
    \/ collector_error
    \/ \E n \in Names : clone_sendProgress(n)
    \/ \E n \in Names : clone_done(n)
    \/ \E n \in Names : clone_release(n)
    \/ clone_wait
    \/ collector_return
    \/ clone_return

SpecClone == InitClone /\ [][NextClone]_vars

\* main: wg.Add(1), then sem.Acquire(ctx, 1) returns the error of the cancelled
\* ctx and cloneConnectionSchemas returns it, without wg.Wait() and without
\* close(progressChan)
clone_acquireFailed ==
    /\ clone.pc = "loop"
    /\ Cancelled
    /\ \E n \in clone.cloneableConnections : clone.worker[n] = "none"
    /\ clone' = [clone EXCEPT !.wg = @ + 1, !.pc = "failed"]
    /\ UNCHANGED <<outsideClone, schema, ledger, res>>

NextCloneCancel ==
    \/ NextClone
    \/ Cancel
    \/ clone_acquireFailed

\* a call of cloneConnectionSchemas whose context may be cancelled at any point
SpecCloneCancel == InitClone /\ [][NextCloneCancel]_vars

\* the clone of n failed: its statement failed, or its unit returned an error
CloneFailed(n) == n \in res.FailedConnections \/ n \in clone.sent

\* C21: when cloneConnectionSchemas has returned, every cloneable connection has
\* had its clone statement executed, and a connection whose clone failed has
\* then had the import statement executed.
C21_CloneFallsBack ==
    clone.pc = "returned" =>
        \A n \in clone.cloneableConnections :
            clone.sqls[n] = IF CloneFailed(n)
                            THEN <<CloneForeignSchema, GetUpdateConnectionQuery>>
                            ELSE <<CloneForeignSchema>>

\* worker n is at an access to pluginMap: its read or its write
AtMapAccess(n) == clone.worker[n] \in {"read", "write"}

\* two workers are at an access to pluginMap at once, one of them at its write
MapRace ==
    \E a \in Names, b \in Names :
        a # b /\ AtMapAccess(a) /\ clone.worker[b] = "write"

\* C22: a worker at an access to pluginMap holds pluginMapMut, and no two workers
\* are at an access at once when one of them writes.
C22_MapAccessUnderMutex ==
    /\ \A n \in Names : AtMapAccess(n) => clone.pluginMapMut = n
    /\ ~MapRace

\* the workers that have been started and have not exited
RunningWorkers == {n \in Names : clone.worker[n] \notin {"none", "exited"}}

\* C23: the workers running at once are never more than the pool's MaxConns; the
\* permits held are one per running worker, taken before its start and kept until
\* its exit; a worker has released its permit once when it has exited and not
\* before.
C23_WorkersBounded ==
    /\ Cardinality(RunningWorkers) <= clone.maxConns
    /\ clone.permits = Cardinality(RunningWorkers)
    /\ \A n \in Names : clone.released[n] = IF clone.worker[n] = "exited" THEN 1 ELSE 0

\* C23 witness: with a single permit one worker runs its clone statement while a
\* second connection waits in the loop for the permit
C23_Witness ==
    /\ clone.maxConns = 1
    /\ clone.pc = "loop"
    /\ \E a \in clone.cloneableConnections, b \in clone.cloneableConnections :
           /\ clone.worker[a] = "exec"
           /\ clone.worker[b] = "none"

----------------------------------------------------------------------------
\* The planner and the two loops of executeUpdateQueries on their own, for every
\* diff and every search path, also one that does not list every connection.

\* the search paths: the sequences of connection names without a repetition
PlanSearchPaths ==
    {sp \in UNION {[1..k -> Names] : k \in 0..NumConnections} :
        \A i \in DOMAIN sp, j \in DOMAIN sp : sp[i] = sp[j] => i = j}

\* the variables the planner and the loops leave alone
outsidePlan == <<pc, searchPath, connectionUpdates, res, schema, ledger, snapshotFile, tx,
                 cur, delDone, updDone, notification, dropsDone, saved, fanout,
                 unitFailures, ctx, comments, clone, client, lock>>

InitPlan ==
    /\ pc = "validate"
    /\ searchPath \in PlanSearchPaths
    /\ \E upd \in SUBSET Names, kept \in SUBSET Names, plug \in PluginAssignments,
          inv \in SUBSET Plugins :
          /\ upd # {}
          /\ Cardinality(inv) <= 1
          /\ inv \subseteq {plug[n] : n \in upd}
          /\ connectionUpdates = [Update |-> upd, Delete |-> {}, Plugin |-> plug,
                                  Invalid |-> inv, Final |-> kept \cup upd,
                                  MissingPlugins |-> {}]
    /\ res = [Error |-> NoError, FailedConnections |-> {}, UpdatedConnections |-> FALSE,
              Warnings |-> <<>>]
    /\ schema = NoSchemas
    /\ ledger = EmptyLedger
    /\ snapshotFile = FALSE
    /\ tx = NoTx
    /\ cur = NoUnit
    /\ delDone = {}
    /\ plan = NoPlan
    /\ updDone = {}
    /\ errors = FALSE
    /\ notification = NoNotification
    /\ dropsDone = {}
    /\ saved = 0
    /\ fanout = "none"
    /\ unitFailures = {}
    /\ ctx = Background
    /\ comments = NoComments
    /\ loops = [NoLoops EXCEPT !.pc = "populate"]
    /\ clone = NoClone
    /\ client = NoClient
    /\ lock = NoLock

\* ValidatePlugins and populateInitialAndRemainingUpdates
loops_populate ==
    /\ loops.pc = "populate"
    /\ LET validationFailures == ValidatePlugins(connectionUpdates)
           validatedUpdates == connectionUpdates.Update \ validationFailures
           maps == populateInitialAndRemainingUpdates(validatedUpdates, connectionUpdates,
                                                      searchPath)
       IN plan' = [validationFailures |-> validationFailures,
                   shouldDrop |-> {},
                   validatedUpdates |-> validatedUpdates,
                   initialUpdates |-> maps.initialUpdates,
                   remainingUpdates |-> maps.remainingUpdates]
    /\ loops' = [loops EXCEPT !.pc = "initial"]
    /\ UNCHANGED <<outsidePlan, errors>>

\* the map the loop ranges over
LoopRange == IF loops.pc = "initial" THEN plan.initialUpdates
             ELSE IF loops.pc = "remaining" THEN plan.remainingUpdates
             ELSE {}

\* one iteration of either loop: executeUpdateQuery is called for a key the range
\* has not yielded yet, and a returned error is appended to errors; loops.called
\* holds the connections it has been called for and loops.again those it has
\* been called for more than once
loops_executeUpdateQuery(n) ==
    /\ n \in LoopRange \ loops.done
    /\ loops' = [loops EXCEPT !.done = @ \cup {n},
                              !.called = @ \cup {n},
                              !.again = IF n \in loops.called THEN @ \cup {n} ELSE @]
    /\ \E err \in BOOLEAN : errors' = (errors \/ err)
    /\ UNCHANGED <<outsidePlan, plan>>

\* the end of the loop over initialUpdates: if len(errors) > 0 { return }, else the
\* notification and the loop over remainingUpdates
loops_initialEnd ==
    /\ loops.pc = "initial"
    /\ plan.initialUpdates \subseteq loops.done
    /\ loops' = [loops EXCEPT !.pc = IF errors THEN "fatal" ELSE "remaining", !.done = {}]
    /\ UNCHANGED <<outsidePlan, plan, errors>>

\* the end of the loop over remainingUpdates
loops_remainingEnd ==
    /\ loops.pc = "remaining"
    /\ plan.remainingUpdates \subseteq loops.done
    /\ loops' = [loops EXCEPT !.pc = "returned", !.done = {}]
    /\ UNCHANGED <<outsidePlan, plan, errors>>

NextPlan ==
    \/ loops_populate
    \/ \E n \in Names : loops_executeUpdateQuery(n)
    \/ loops_initialEnd
    \/ loops_remainingEnd

SpecPlan == InitPlan /\ [][NextPlan]_vars

\* the plugins one of whose connections is a validated update
UpdatedPlugins == {connectionUpdates.Plugin[n] : n \in plan.validatedUpdates}

\* the declared connections of plugin p
ConnectionsOf(p) == {n \in connectionUpdates.Final : connectionUpdates.Plugin[n] = p}

\* the position of connection n in the search path, past its end if n is not in it
PathIndex(n) ==
    IF \E i \in DOMAIN searchPath : searchPath[i] = n
    THEN CHOOSE i \in DOMAIN searchPath : searchPath[i] = n
    ELSE Len(searchPath) + 1

\* n is the exemplar of its plugin: no other connection of the plugin is earlier in
\* the search path, and if none is in the search path none has a lower name
IsExemplar(n) ==
    /\ n \in connectionUpdates.Final
    /\ \A m \in ConnectionsOf(connectionUpdates.Plugin[n]) :
          \/ PathIndex(n) < PathIndex(m)
          \/ PathIndex(n) = PathIndex(m) /\ n <= m

\* the maps have been built
Planned == loops.pc \notin {"none", "populate"}

\* C24 as stated: Initial holds exactly one connection of every plugin that has a
\* validated update.
C24_OnePerUpdatedPlugin ==
    Planned =>
        \A p \in UpdatedPlugins :
            Cardinality(plan.initialUpdates \cap ConnectionsOf(p)) = 1

\* C24, amended: Initial holds the validated updates that are the exemplar of
\* their plugin, so at most one connection of a plugin, and none of a plugin whose
\* exemplar is not a validated update.
C24_ExemplarsBeingUpdated ==
    Planned =>
        /\ \A n \in Names :
              n \in plan.initialUpdates <=> (n \in plan.validatedUpdates /\ IsExemplar(n))
        /\ \A p \in Plugins : Cardinality(plan.initialUpdates \cap ConnectionsOf(p)) <= 1

\* C24 witness: the search path lists no connection of a plugin whose connection
\* with the lowest name is a validated update and is in Initial, while another
\* validated update of the plugin is not
C24_Witness ==
    /\ Planned
    /\ \E n \in plan.initialUpdates, m \in plan.validatedUpdates :
          /\ n < m
          /\ connectionUpdates.Plugin[n] = connectionUpdates.Plugin[m]
          /\ m \notin plan.initialUpdates
          /\ \A k \in ConnectionsOf(connectionUpdates.Plugin[n]) :
                PathIndex(k) > Len(searchPath)

----------------------------------------------------------------------------
\* the result holds the warning w
HasWarning(w) == \E i \in DOMAIN res.Warnings : res.Warnings[i] = w

\* a step of the loop over validationFailures
DropInvalidStep == dropsDone' # dropsDone

\* C26: executeUpdateQuery is never called for a connection whose plugin failed
\* validation; the result holds the validation warning exactly when there is a
\* validation failure; a step of the loop over validationFailures removes no schema
\* but that of the failure it handles, and only if that failure is flagged
\* ShouldDropIfExists, and it leaves the result, the ledger and the snapshot alone
\* whether or not the drop fails.
C26_ValidationFailures ==
    /\ [](\A n \in plan.validationFailures : ~UpdateStarted(n))
    /\ [](HasWarning("validation") <=> plan.validationFailures # {})
    /\ [][DropInvalidStep =>
            /\ res' = res
            /\ ledger' = ledger
            /\ \A n \in Names :
                  schema'[n] # schema[n] =>
                      /\ n \in dropsDone' \ dropsDone
                      /\ n \in plan'.shouldDrop
                      /\ ~schema'[n]]_vars

\* C26 witness: the drop of a flagged validation failure has failed and left its
\* schema, another plugin's update has been imported, and there is no fatal error
C26_Witness ==
    /\ pc = "dropInvalid"
    /\ \E f \in dropsDone \cap plan.shouldDrop : schema[f]
    /\ plan.validatedUpdates # {}
    /\ \A n \in plan.validatedUpdates : schema[n] /\ ledger[n].state = "ready"
    /\ res.Error = NoError

----------------------------------------------------------------------------
\* C27 as stated: a comment pass that has run has come after both loops, and the
\* connections it wrote comments for are not in FailedConnections and have a ready
\* ledger row.
C27_CommentsForReadyOnly ==
    comments.pass = "acquired" =>
        /\ plan.initialUpdates \cup plan.remainingUpdates \subseteq updDone
        /\ \A n \in comments.attempted :
              /\ n \notin res.FailedConnections
              /\ ledger[n].state = "ready"

----------------------------------------------------------------------------
\* how many positions refreshConnections can still go through after pc, the
\* positions taken in the order of the code
PositionsLeft ==
    CASE pc = "start" -> 13
      [] pc = "built" -> 12
      [] pc = "tableStart" -> 11
      [] pc = "delete" -> 10
      [] pc = "validate" -> 9
      [] pc = "initial" -> 8
      [] pc = "notify" -> 7
      [] pc = "remaining" -> 6
      [] pc = "dropInvalid" -> 5
      [] pc = "comments" -> 4
      [] pc = "complete" -> 3
      [] pc = "deferSave" -> 2
      [] pc = "deferSetAll" -> 1
      [] pc = "done" -> 0

\* how far the work unit u has got
PhaseRank(u) == IF u.phase = "begun" THEN 1 ELSE IF u.phase = "executed" THEN 2 ELSE 0

\* a step goes on to a later position, or stays in its loop and either ends one
\* more of the loop's units or takes the unit in progress one phase further
Progress ==
    IF pc' # pc THEN PositionsLeft' < PositionsLeft
    ELSE IF delDone' # delDone THEN delDone \subseteq delDone'
    ELSE IF updDone' # updDone THEN updDone \subseteq updDone'
    ELSE IF dropsDone' # dropsDone THEN dropsDone \subseteq dropsDone'
    ELSE PhaseRank(cur') > PhaseRank(cur)

\* C28: every step of refreshConnections, whatever a database call returns, makes
\* progress in an order that has no infinite descent (positions, then units ended,
\* then the phase of the unit in progress), and a step is possible wherever it has
\* not returned: it returns after a bounded number of steps, with no transaction
\* left open and with the one result res, whose Error is nil or a fatal error.
C28_Terminates ==
    /\ [][Progress]_vars
    /\ [](pc # "done" => ENABLED Next)
    /\ [](pc = "done" =>
            /\ tx = NoTx
            /\ res.Error \in {NoError, "build", "start", "ledger", "save"})

\* C28 witness: refreshConnections has returned after an import failure of one
\* connection and a ledger failure of another
C28_Witness ==
    /\ pc = "done"
    /\ res.FailedConnections # {}
    /\ res.Error = "ledger"
    /\ "ledger" \in unitFailures

----------------------------------------------------------------------------
\* NewConnectionUpdates or tableUpdater.start has failed
BuildOrStartFailed == res.Error \in {"build", "start"}

\* C30: once building the updates or starting the ledger store has failed, no
\* delete, import or drop has been or is executed: no work unit has begun, no
\* loop has handled a connection, no map has been planned, no notification and
\* no comment has been sent, and no later step changes a schema; the refresh
\* returns with that fatal error and without UpdatedConnections.
C30_NoDDLAfterEarlyFailure ==
    /\ [](BuildOrStartFailed =>
            /\ pc \in {"built", "deferSave", "deferSetAll", "done"}
            /\ cur = NoUnit /\ tx = NoTx
            /\ delDone = {} /\ updDone = {} /\ dropsDone = {}
            /\ plan = NoPlan
            /\ notification = NoNotification
            /\ comments = NoComments
            /\ ~res.UpdatedConnections)
    /\ [][BuildOrStartFailed' => schema' = schema]_vars
    /\ [][BuildOrStartFailed => res'.Error = res.Error]_vars
    /\ [](pc \in {"start", "built", "tableStart"} =>
            cur = NoUnit /\ delDone = {} /\ updDone = {} /\ dropsDone = {})

\* C30 witness: the refresh has returned with the error of tableUpdater.start
\* although there were connections to delete and to update
C30_Witness ==
    /\ pc = "done"
    /\ res.Error = "start"
    /\ connectionUpdates.Delete # {}
    /\ connectionUpdates.Update # {}

----------------------------------------------------------------------------
\* C29: never more than one pool connection is in use; a transaction is open
\* exactly while a work unit is between its Begin and its deferred Commit or
\* Rollback; the connection of writeComments is held only inside writeComments;
\* none is in use once executeUpdateQueries has returned; and, the pool having
\* one connection, whenever that connection is in use there is a step that need
\* not wait for another one.
C29_ConnectionReturned ==
    /\ AcquiredConns <= poolsize
    /\ tx.open <=> cur.phase \in {"begun", "executed"}
    /\ ~tx.open => tx = NoTx
    /\ comments.pass = "acquired" => pc = "comments"
    /\ QueriesReturned => AcquiredConns = 0
    /\ (pc # "done" /\ ~PoolHasConn) => ENABLED Next

\* C29 witness: a second work unit has begun its transaction after the first,
\* whose import failed, has ended its own and returned
C29_Witness ==
    /\ tx.open
    /\ cur.kind = "update"
    /\ \E n \in updDone : n \in res.FailedConnections /\ n # cur.name
    /\ delDone # {}

----------------------------------------------------------------------------
\* executeUpdateQueries has returned because of an error of the loop over
\* initialUpdates
StoppedAfterExemplars == res.Error = "ledger" /\ notification.count = 0

\* C31: the loop over initialUpdates is left with an error only when every
\* exemplar has had its executeUpdateQuery call, and then for the return with the
\* fatal error set; after that no notification has been or is sent, no update
\* of remainingUpdates is begun, no validation failure is handled, no comment is
\* written and no schema changes.
C31_ExemplarErrorStops ==
    /\ [][(pc = "initial" /\ errors /\ pc' # pc) =>
            /\ pc' = "complete"
            /\ res'.Error = "ledger"
            /\ plan.initialUpdates \subseteq updDone]_vars
    /\ [](StoppedAfterExemplars =>
            /\ pc \in {"complete", "deferSave", "deferSetAll", "done"}
            /\ notification = NoNotification
            /\ updDone = plan.initialUpdates
            /\ cur.kind = "update" /\ cur.name \in plan.initialUpdates
            /\ dropsDone = {}
            /\ comments = NoComments
            /\ ~res.UpdatedConnections)
    /\ [][StoppedAfterExemplars => (schema' = schema /\ cur' = cur)]_vars

\* C31 witness: executeUpdateQueries has returned after one exemplar was made
\* ready and the ledger write of another failed
C31_Witness ==
    /\ pc = "complete"
    /\ StoppedAfterExemplars
    /\ "ledger" \in unitFailures
    /\ \E n \in plan.initialUpdates : ledger[n].state = "ready" /\ n \in connectionUpdates.Update
    /\ \E n \in plan.initialUpdates : ledger[n].state = "updating"

\* setAllConnectionStateToError has been called
FanoutCalled == fanout # "none"

C33_UpdatedIffSuccess ==
    pc = "done" =>
        (res.UpdatedConnections <=> (HasUpdates(connectionUpdates) /\ res.Error = NoError))

----------------------------------------------------------------------------
\* C34 as stated: every connection recorded in pluginMap, and so every source a
\* worker reads from it, has its foreign schema: it is the exemplar the call was
\* given or a connection whose clone was committed.
C34_SourceMaterialised ==
    /\ \A p \in Plugins : clone.pluginMap[p] \in Names => schema[clone.pluginMap[p]]
    /\ \A n \in Names :
          clone.exemplarSchemaName[n] \in Names => schema[clone.exemplarSchemaName[n]]

\* C35 as stated: the value cloneConnectionSchemas returns holds the error of
\* every worker that sent one on errChan.
C35_AllErrorsReturned ==
    clone.pc = "returned" => clone.returned = clone.sent

\* every goroutine the call started has ended
GoroutinesEnded ==
    /\ clone.collector = "returned"
    /\ \A n \in Names : clone.worker[n] \in {"none", "exited"}

\* C36 as stated: once cloneConnectionSchemas has returned and no goroutine can
\* take a step, every worker has exited and the collector has returned.
C36_NoGoroutineLeft ==
    (clone.pc \in {"returned", "failed"} /\ ~ENABLED NextClone) => GoroutinesEnded

----------------------------------------------------------------------------
\* SteampipeDbClient (steampipe_db_client.go): calls on one client with one
\* database session, one at a time.

\* every variable of the refresh, at rest
refreshVars == <<pc, searchPath, connectionUpdates, res, schema, ledger, snapshotFile, tx, cur,
                 delDone, plan, updDone, errors, notification, dropsDone, saved, fanout,
                 unitFailures, ctx, comments, loops, clone>>

NoRefresh ==
    /\ pc = "done"
    /\ searchPath = Ascending
    /\ connectionUpdates = NoUpdates
    /\ res = [Error |-> NoError, FailedConnections |-> {}, UpdatedConnections |-> FALSE,
              Warnings |-> <<>>]
    /\ schema = NoSchemas
    /\ ledger = EmptyLedger
    /\ snapshotFile = FALSE
    /\ tx = NoTx
    /\ cur = NoUnit
    /\ delDone = {}
    /\ plan = NoPlan
    /\ updDone = {}
    /\ errors = FALSE
    /\ notification = NoNotification
    /\ dropsDone = {}
    /\ saved = 0
    /\ fanout = "none"
    /\ unitFailures = {}
    /\ ctx = Background
    /\ comments = NoComments
    /\ loops = NoLoops
    /\ clone = NoClone

\* the largest id of a row of the scan metadata table
MaxScanId == 2

\* search paths: lists of schema names without repetition, here one name or
\* all of them; the empty list is a path that is not set
SessionPaths == {<<>>} \cup {<<a>> : a \in Names} \cup SearchPaths

\* the separator of strings.Join(path, ","); no schema name holds it
Comma == 0

RECURSIVE Join(_)
Join(path) ==
    IF Len(path) <= 1 THEN path
    ELSE <<Head(path), Comma>> \o Join(Tail(path))

\* the custom search path if present, else the user search path
GetRequiredSessionSearchPath(c) ==
    IF c.customSearchPath # <<>> THEN c.customSearchPath ELSE c.userSearchPath

\* a session property that is updated whatever the statement did
RecordedSearchPath_Always(ok, session, requiredSearchPath) == requiredSearchPath

\* what session.SearchPath holds after the `set search_path` call has ended
RecordedSearchPath(ok, session, requiredSearchPath) ==
    IF ok THEN requiredSearchPath ELSE session.SearchPath

\* a client after NewSteampipeDbClient, with a session whose recorded search
\* path is whatever earlier calls left
InitClient ==
    /\ NoRefresh
    /\ lock = NoLock
    /\ \E custom \in SessionPaths, user \in SearchPaths, sp \in SessionPaths,
          timing \in BOOLEAN, maxId \in 0..MaxScanId :
          client = [pc |-> "idle", op |-> "none", ret |-> "none",
                    customSearchPath |-> custom, userSearchPath |-> user,
                    showTimingFlag |-> timing, disableTiming |-> FALSE,
                    session |-> [SearchPath |-> sp, ScanMetadataMaxId |-> maxId],
                    statements |-> 0, sent |-> 0, scan |-> "none",
                    connectionSchemaMap |-> {}, loaded |-> {}, metadata |-> {}]

\* what a call starts from: the locals of the call before are gone
Call(c, op) ==
    [c EXCEPT !.op = op, !.ret = "none", !.statements = 0, !.sent = 0, !.scan = "none",
              !.connectionSchemaMap = {}, !.loaded = {}, !.metadata = {}]

\* ensureSessionSearchPath: LoadUserSearchPathForConnection stores the user
\* search path it reads, or fails and the call returns its error
ensureSessionSearchPath_load ==
    /\ client.pc = "idle"
    /\ \E ok \in BOOLEAN, user \in SearchPaths :
         client' = IF ok
                   THEN [Call(client, "ensure") EXCEPT !.userSearchPath = user, !.pc = "compare"]
                   ELSE [Call(client, "ensure") EXCEPT !.ret = "err"]
    /\ UNCHANGED <<refreshVars, lock>>

\* the session search path is compared with the required one, both joined
ensureSessionSearchPath_compare ==
    /\ client.pc = "compare"
    /\ client' = IF Join(client.session.SearchPath) = Join(GetRequiredSessionSearchPath(client))
                 THEN [client EXCEPT !.pc = "idle", !.ret = "ok"]
                 ELSE [client EXCEPT !.pc = "set"]
    /\ UNCHANGED <<refreshVars, lock>>

\* `set search_path to ...` is executed in a system client call; the session's
\* property is updated when it succeeded
ensureSessionSearchPath_set ==
    /\ client.pc = "set"
    /\ \E ok \in BOOLEAN :
         client' = [client EXCEPT
                      !.pc = "idle",
                      !.statements = @ + 1,
                      !.ret = IF ok THEN "ok" ELSE "err",
                      !.session.SearchPath =
                          RecordedSearchPath(ok, client.session,
                                             GetRequiredSessionSearchPath(client))]
    /\ UNCHANGED <<refreshVars, lock>>

shouldShowTiming(c) == c.showTimingFlag /\ ~c.disableTiming

\* scan metadata taken as read whatever the query did
ReadScanMetadata_Always(scan) == TRUE

\* scan metadata was read: the query did not fail and gave a row
ReadScanMetadata(scan) == scan = "rows"

\* getQueryTiming up to the system client call: return at once unless timing
\* is to be shown, else disable timing and register the deferred function
getQueryTiming_begin ==
    /\ client.pc = "idle"
    /\ client' = IF shouldShowTiming(client)
                 THEN [Call(client, "timing") EXCEPT !.disableTiming = TRUE, !.pc = "query"]
                 ELSE [Call(client, "timing") EXCEPT !.ret = "skipped"]
    /\ UNCHANGED <<refreshVars, lock>>

\* the scan metadata query (rows with id > session.ScanMetadataMaxId) fails,
\* gives no row, or gives a row; with a row the session's max id is updated
getQueryTiming_query ==
    /\ client.pc = "query"
    /\ \E scan \in {"err", "norows", "rows"}, id \in 1..MaxScanId :
         /\ scan = "rows" => id > client.session.ScanMetadataMaxId
         /\ client' = [client EXCEPT
                          !.pc = "defer",
                          !.scan = scan,
                          !.session.ScanMetadataMaxId =
                              IF ReadScanMetadata(scan) THEN id ELSE @]
    /\ UNCHANGED <<refreshVars, lock>>

\* the deferred function: timing is enabled again and the result is sent
getQueryTiming_defer ==
    /\ client.pc = "defer"
    /\ client' = [client EXCEPT !.pc = "idle", !.ret = "ok", !.disableTiming = FALSE,
                                !.sent = @ + 1]
    /\ UNCHANGED <<refreshVars, lock>>

\* a ConnectionSchemaMap: schemas to load, each with the other schemas which
\* have the same schema; no name is in two groups. SchemaGroups gives every
\* schema the schema to load for it (itself for a loaded one, 0 when the schema
\* is not in the map)
SchemaGroups ==
    {r \in [Names -> {0} \cup Names] : \A n \in Names : r[n] # 0 => r[r[n]] = r[n]}

ConnectionSchemaMaps ==
    {{[loadedSchema |-> e, otherSchemas |-> {n \in Names \ {e} : r[n] = e}] :
         e \in {n \in Names : r[n] = n}} : r \in SchemaGroups}

\* maps.Keys(connectionSchemaMap)
SchemaKeys(m) == {g.loadedSchema : g \in m}

\* a schema without tables
EmptySchema == 0

\* metadata.Schemas as pairs <<schema name, whose tables it holds>> after the
\* loop over connectionSchemaMap
FanOut(m, schemas) ==
    schemas \cup
    {<<s, IF <<g.loadedSchema, g.loadedSchema>> \in schemas THEN g.loadedSchema
          ELSE EmptySchema>> : <<g, s>> \in {t \in m \X Names : t[2] \in t[1].otherSchemas}}

\* GetSchemaFromDB up to NewConnectionSchemaMap: the management connection, then
\* LoadConnectionState, whose failure leads to the legacy loader
GetSchemaFromDB_loadState ==
    /\ client.pc = "idle"
    /\ \E connOk \in BOOLEAN, stateOk \in BOOLEAN, m \in ConnectionSchemaMaps :
         client' = IF ~connOk THEN [Call(client, "schema") EXCEPT !.ret = "err"]
                   ELSE IF ~stateOk THEN [Call(client, "schema") EXCEPT !.pc = "legacy"]
                   ELSE [Call(client, "schema") EXCEPT !.pc = "load",
                                                       !.connectionSchemaMap = m]
    /\ UNCHANGED <<refreshVars, lock>>

\* GetSchemaFromDBLegacy: every schema that has tables is loaded
GetSchemaFromDBLegacy ==
    /\ client.pc = "legacy"
    /\ \E ok \in BOOLEAN, withTables \in SUBSET Names :
         client' = IF ok
                   THEN [client EXCEPT !.pc = "idle", !.ret = "legacy", !.loaded = Names,
                                       !.metadata = {<<n, n>> : n \in withTables}]
                   ELSE [client EXCEPT !.pc = "idle", !.ret = "err"]
    /\ UNCHANGED <<refreshVars, lock>>

\* the query built from the keys of the map is run by LoadSchemaMetadata; a
\* schema without tables has no rows in the result
GetSchemaFromDB_load ==
    /\ client.pc = "load"
    /\ \E ok \in BOOLEAN, withTables \in SUBSET SchemaKeys(client.connectionSchemaMap) :
         client' = IF ok
                   THEN [client EXCEPT !.pc = "fanout",
                                       !.loaded = SchemaKeys(client.connectionSchemaMap),
                                       !.metadata = {<<n, n>> : n \in withTables}]
                   ELSE [client EXCEPT !.pc = "idle", !.ret = "err"]
    /\ UNCHANGED <<refreshVars, lock>>

\* the loop that adds the other schemas, and the return
GetSchemaFromDB_fanout ==
    /\ client.pc = "fanout"
    /\ client' = [client EXCEPT !.pc = "idle", !.ret = "ok",
                                !.metadata = FanOut(client.connectionSchemaMap, @)]
    /\ UNCHANGED <<refreshVars, lock>>

NextClient ==
    \/ ensureSessionSearchPath_load
    \/ ensureSessionSearchPath_compare
    \/ ensureSessionSearchPath_set
    \/ getQueryTiming_begin
    \/ getQueryTiming_query
    \/ getQueryTiming_defer
    \/ GetSchemaFromDB_loadState
    \/ GetSchemaFromDBLegacy
    \/ GetSchemaFromDB_load
    \/ GetSchemaFromDB_fanout

SpecClient == InitClient /\ [][NextClient]_vars

\* C37: when ensureSessionSearchPath has returned without error the session's
\* recorded search path is the required one (the custom path if set, else the
\* user path); when the two were already equal it returns without executing a
\* `set search_path`; when the statement fails the recorded path is unchanged
\* and the error is returned.
C37_SessionSearchPath ==
    /\ []((client.op = "ensure" /\ client.pc = "idle" /\ client.ret = "ok") =>
            client.session.SearchPath = GetRequiredSessionSearchPath(client))
    /\ [][(client.pc = "compare"
             /\ client.session.SearchPath = GetRequiredSessionSearchPath(client)) =>
                (client'.pc = "idle" /\ client'.ret = "ok" /\ client'.statements = 0)]_vars
    /\ [][(client.op = "ensure" /\ client'.op = "ensure" /\ client'.ret # "ok") =>
                client'.session.SearchPath = client.session.SearchPath]_vars
    /\ [][(client.pc = "set" /\ client'.session.SearchPath = client.session.SearchPath) =>
                client'.ret = "err"]_vars

C37_Witness ==
    /\ client.op = "ensure" /\ client.pc = "idle" /\ client.ret = "ok"
    /\ client.statements = 1
    /\ client.customSearchPath = <<>>
    /\ client.session.SearchPath \in SearchPaths

\* C38: a getQueryTiming call made while timing is to be shown sends exactly one
\* TimingResult and leaves disableTiming false when it returns, whatever the scan
\* metadata query did; while that query runs disableTiming is true, so timing is
\* not to be shown; the session's ScanMetadataMaxId changes only when scan
\* metadata was read.
C38_TimingResult ==
    /\ [][(client.pc = "idle" /\ client'.op = "timing" /\ shouldShowTiming(client)) =>
                client'.pc = "query"]_vars
    /\ [](client.pc \in {"query", "defer"} =>
            /\ client.disableTiming /\ ~shouldShowTiming(client)
            /\ client.sent = 0)
    /\ []((client.op = "timing" /\ client.pc = "idle" /\ client.ret # "skipped") =>
            (client.sent = 1 /\ ~client.disableTiming /\ client.ret = "ok"))
    /\ [][client.pc = "query" => client'.pc = "defer"]_vars
    /\ [][client'.session.ScanMetadataMaxId # client.session.ScanMetadataMaxId =>
                (client.pc = "query" /\ client'.scan = "rows")]_vars

C38_Witness ==
    /\ client.op = "timing" /\ client.pc = "idle" /\ client.sent = 1
    /\ client.scan = "err"

\* every schema named in the map, as a key or as one of the others
SchemasOfMap(m) == UNION {{g.loadedSchema} \cup g.otherSchemas : g \in m}

\* C39 as stated: GetSchemaFromDB loads only the exemplar schemas of the map,
\* gives every other schema of a group the schema of its exemplar (the empty
\* schema when the exemplar has no tables), so that every connection of the map
\* has an entry in the returned metadata; when the connection state cannot be
\* loaded the legacy loader's result is returned instead of the error.
C39_EveryConnectionHasSchema ==
    /\ (client.op = "schema" /\ client.ret = "ok") =>
          /\ client.loaded = SchemaKeys(client.connectionSchemaMap)
          /\ \A g \in client.connectionSchemaMap : \A s \in g.otherSchemas :
                \/ <<s, g.loadedSchema>> \in client.metadata
                \/ /\ <<s, EmptySchema>> \in client.metadata
                   /\ <<g.loadedSchema, g.loadedSchema>> \notin client.metadata
          /\ \A n \in SchemasOfMap(client.connectionSchemaMap) :
                \E t \in client.metadata : t[1] = n
    /\ client.pc = "legacy" => client.ret = "none"

----------------------------------------------------------------------------
\* LoadWorkspaceLock (workspace_lock.go)

\* a mod and a version of it, as modconfig.ModVersionFullName names them
ModVersionFullName(name, version) == <<name, version>>

\* the mod versions that can be found under the mods folder
ModVersions == {ModVersionFullName(name, version) : name \in 1..NumMods, version \in 1..2}

\* lock files: for a parent (the workspace mod 0 or mod 1) and a dependency name,
\* at most one resolved version
LockFiles ==
    {f \in SUBSET [parent : 0..1, name : 1..NumMods, version : 1..2] :
        \A d \in f, e \in f : (d.parent = e.parent /\ d.name = e.name) => d = e}

\* setMissing that leaves the missing items in the install cache
setMissing_NoRemove(l) ==
    [l EXCEPT !.MissingVersions =
                 @ \cup {e \in l.InstallCache :
                            ModVersionFullName(e.name, e.version) \notin l.installedMods}]

\* the items of InstallCache that are not installed are added to MissingVersions
\* and removed from InstallCache
setMissing(l) ==
    LET missing == {e \in l.InstallCache :
                       ModVersionFullName(e.name, e.version) \notin l.installedMods}
    IN [l EXCEPT !.MissingVersions = @ \cup missing, !.InstallCache = @ \ missing]

\* a workspace: the content of its lock file (none when there is no file) and the
\* mods installed in it
InitLock ==
    /\ NoRefresh
    /\ client = NoClient
    /\ \E file \in LockFiles, mods \in SUBSET ModVersions :
          lock = [pc |-> "read", file |-> file, modsPath |-> mods, ret |-> "none",
                  InstallCache |-> {}, MissingVersions |-> {}, installedMods |-> {}]

\* the lock file is read and unmarshalled into installCache; a read error is
\* returned, an unmarshal error gives neither a lock nor an error
LoadWorkspaceLock_read ==
    /\ lock.pc = "read"
    /\ \E readOk \in BOOLEAN, parseOk \in BOOLEAN :
         lock' = IF ~readOk THEN [lock EXCEPT !.pc = "done", !.ret = "err"]
                 ELSE IF ~parseOk THEN [lock EXCEPT !.pc = "done", !.ret = "nil"]
                 ELSE [lock EXCEPT !.pc = "getInstalledMods", !.InstallCache = lock.file]
    /\ UNCHANGED <<refreshVars, client>>

\* getInstalledMods lists the mod.sp files under the mods folder
LoadWorkspaceLock_getInstalledMods ==
    /\ lock.pc = "getInstalledMods"
    /\ \E ok \in BOOLEAN :
         lock' = IF ok THEN [lock EXCEPT !.pc = "setMissing", !.installedMods = lock.modsPath]
                 ELSE [lock EXCEPT !.pc = "done", !.ret = "err", !.InstallCache = {}]
    /\ UNCHANGED <<refreshVars, client>>

LoadWorkspaceLock_setMissing ==
    /\ lock.pc = "setMissing"
    /\ lock' = [setMissing(lock) EXCEPT !.pc = "done", !.ret = "lock"]
    /\ UNCHANGED <<refreshVars, client>>

NextLock ==
    \/ LoadWorkspaceLock_read
    \/ LoadWorkspaceLock_getInstalledMods
    \/ LoadWorkspaceLock_setMissing

SpecLock == InitLock /\ [][NextLock]_vars

============================================================================
